---- MODULE Spec2Model ----
(***************************************************************************)
(* Model of designate_tempest_plugin/services/dns/json/base.py:            *)
(* the handle_errors decorator and the DnsClientBase REST test client      *)
(* (get_uri, serialize, deserialize, expected_success and the six verb     *)
(* helpers).  The client is stateless: the state of the model is the last  *)
(* call made on the client (its inputs and the transport's answer) and     *)
(* everything that call produced (result, URI, steps, requests, log).      *)
(* Python strings that the code inspects (URIs, content types, status      *)
(* strings) are sequences of one-character strings.                        *)
(***************************************************************************)
EXTENDS Integers, Sequences, FiniteSets, TLC

VARIABLES uri_prefix, call, received, inner, outcome, uri, trace, requests, log

vars == <<uri_prefix, call, received, inner, outcome, uri, trace, requests, log>>

\* Largest number of entries in a query-parameter mapping.
MaxParams == 2

(***************************************************************************)
(* Python values                                                           *)
(***************************************************************************)

\* An optional string argument: None, or a str (possibly empty).
NoneStr == [none |-> TRUE, s |-> <<>>]

Str(s) == [none |-> FALSE, s |-> s]

\* An optional mapping argument: None, or a dict given as its ordered items.
NoneDict == [none |-> TRUE, items |-> <<>>]

Dict(items) == [none |-> FALSE, items |-> items]

\* Python truthiness of an optional str: None and '' are false.
TruthyStr(x) == ~x.none /\ x.s # <<>>

\* Python truthiness of an optional dict: None and {} are false.
TruthyDict(x) == ~x.none /\ x.items # <<>>

\* A value held in a body: a raw str, a parsed JSON value, a ZoneFile, None.
Val(kind, v) == [kind |-> kind, v |-> v]

NoneVal == Val("None", "")

\* An exception instance: its class and its message.
Err(kind, msg) == [kind |-> kind, msg |-> msg]

NoErr == Err("none", "")

\* resp.status: an int, or a str holding its characters.
IntStatus(n) == [type |-> "int", n |-> n, s |-> <<>>]

StrStatus(s) == [type |-> "str", n |-> 0, s |-> s]

Resp(status, ctype) == [status |-> status, ctype |-> ctype]

NoResp == Resp(IntStatus(0), <<>>)

(***************************************************************************)
(* Strings                                                                 *)
(***************************************************************************)

RECURSIVE Concat(_)
\* ''.join(parts)
Concat(parts) ==
    IF parts = <<>> THEN <<>> ELSE Head(parts) \o Concat(Tail(parts))

RECURSIVE Join(_, _)
\* sep.join(parts)
Join(sep, parts) ==
    IF parts = <<>> THEN <<>>
    ELSE IF Len(parts) = 1 THEN Head(parts)
    ELSE Head(parts) \o sep \o Join(sep, Tail(parts))

\* needle in hay, for str
Contains(needle, hay) ==
    \E i \in 0..(Len(hay) - Len(needle)) :
        SubSeq(hay, i + 1, i + Len(needle)) = needle

\* urllib quote_plus of one character: unreserved characters are kept, a space
\* becomes '+', every other character is percent-encoded.
QuoteChar(c) ==
    CASE c = " " -> <<"+">>
      [] c = "&" -> <<"%", "2", "6">>
      [] c = "=" -> <<"%", "3", "D">>
      [] c = "?" -> <<"%", "3", "F">>
      [] c = "/" -> <<"%", "2", "F">>
      [] OTHER -> <<c>>

quote_plus(s) == Concat([i \in 1..Len(s) |-> QuoteChar(s[i])])

\* urllib.urlencode of a dict: quoted key=value pairs joined by '&'.
urlencode(params) ==
    Join(<<"&">>,
         [i \in 1..Len(params.items) |->
             quote_plus(params.items[i].k) \o <<"=">> \o
             quote_plus(params.items[i].v)])

DigitValue(c) ==
    CASE c = "0" -> 0 [] c = "1" -> 1 [] c = "2" -> 2 [] c = "3" -> 3
      [] c = "4" -> 4 [] c = "5" -> 5 [] c = "6" -> 6 [] c = "7" -> 7
      [] c = "8" -> 8 [] c = "9" -> 9 [] OTHER -> -1

RECURSIVE ParseDigits(_, _)
ParseDigits(s, acc) ==
    IF s = <<>> THEN acc
    ELSE ParseDigits(Tail(s), acc * 10 + DigitValue(Head(s)))

\* Whether int(read_code) succeeds: always for an int, for a str only when
\* it is a non-empty run of digits.
Coercible(status) ==
    \/ status.type = "int"
    \/ /\ status.s # <<>>
       /\ \A i \in 1..Len(status.s) : DigitValue(status.s[i]) >= 0

\* int(read_code), where it succeeds.
IntOf(status) ==
    IF status.type = "int" THEN status.n ELSE ParseDigits(status.s, 0)

\* Python's read_code == n for an int n: a str never equals an int.
PyEqInt(status, n) == status.type = "int" /\ status.n = n

(***************************************************************************)
(* Exception classes (tempest.lib.exceptions and the builtins)             *)
(***************************************************************************)

ErrorKinds ==
    {"Exception", "TypeError", "ValueError", "TempestException",
     "RestClientException", "NotFound", "InvalidContentType",
     "InvalidHttpSuccessCode", "TimeoutException"}

\* The base class of each exception class.
BaseOf(kind) ==
    CASE kind \in {"TypeError", "ValueError", "TempestException"} -> "Exception"
      [] kind = "RestClientException" -> "TempestException"
      [] kind \in {"NotFound", "InvalidContentType", "InvalidHttpSuccessCode",
                   "TimeoutException"} -> "RestClientException"
      [] OTHER -> "none"

RECURSIVE IsSubclass(_, _)
IsSubclass(kind, base) ==
    IF kind = base THEN TRUE
    ELSE IF BaseOf(kind) = "none" THEN FALSE
    ELSE IsSubclass(BaseOf(kind), base)

\* Whether `except classes` catches e: e is an instance of one of them.
Catches(classes, e) == \E c \in classes : IsSubclass(e.kind, c)

(***************************************************************************)
(* DnsClientBase.get_uri                                                   *)
(***************************************************************************)

\* Variant: the segment is added whenever uuid is not None, '' included.
uuid_segment_notnone(uuid) == IF ~uuid.none THEN <<"/">> \o uuid.s ELSE <<>>

\* uuid = '/%s' % uuid if uuid else ''
uuid_segment(uuid) == IF TruthyStr(uuid) THEN <<"/">> \o uuid.s ELSE <<>>

\* params = '?%s' % urllib.urlencode(params) if params else ''
params_segment(params) ==
    IF TruthyDict(params) THEN <<"?">> \o urlencode(params) ELSE <<>>

\* '{pref}/{res}{uuid}{params}'.format(...)
get_uri(prefix, resource_name, uuid, params) ==
    prefix \o <<"/">> \o resource_name \o uuid_segment(uuid)
        \o params_segment(params)

(***************************************************************************)
(* DnsClientBase.serialize / deserialize                                   *)
(***************************************************************************)

JsonObjText == "{\"id\": 1}"

JsonStrText == "\"abc\""

ZoneText == "$ORIGIN example.com."

EmptyText == ""

\* json.dumps of the payload: None gives 'null', a dict its JSON text.
json_dumps(object_dict) ==
    CASE object_dict.kind = "None" -> "null"
      [] object_dict.kind = "dict" /\ object_dict.v = "id=1" -> JsonObjText
      [] object_dict.kind = "dict" /\ object_dict.v = "" -> "{}"
      [] object_dict.kind = "str" -> "\"" \o object_dict.v \o "\""
      [] OTHER -> "null"

\* json.loads of a text: the parsed value, or ValueError for a text that is
\* not JSON (the empty text and zone-file text among them).
json_loads(text) ==
    CASE text = JsonObjText ->
            [raised |-> FALSE, exc |-> NoErr, value |-> Val("dict", "id=1")]
      [] text = "{}" ->
            [raised |-> FALSE, exc |-> NoErr, value |-> Val("dict", "")]
      [] text = "null" ->
            [raised |-> FALSE, exc |-> NoErr, value |-> NoneVal]
      [] text = JsonStrText ->
            [raised |-> FALSE, exc |-> NoErr, value |-> Val("str", "abc")]
      [] OTHER ->
            [raised |-> TRUE, exc |-> Err("ValueError", "No JSON object"),
             value |-> NoneVal]

\* ZoneFile.from_text: a ZoneFile model built from the text.
ZoneFile_from_text(text) ==
    [raised |-> FALSE, exc |-> NoErr, value |-> Val("ZoneFile", text)]

serialize(object_dict) == json_dumps(object_dict)

AppJson ==
    <<"a", "p", "p", "l", "i", "c", "a", "t", "i", "o", "n", "/",
      "j", "s", "o", "n">>

TextDns == <<"t", "e", "x", "t", "/", "d", "n", "s">>

TextPlain == <<"t", "e", "x", "t", "/", "p", "l", "a", "i", "n">>

Charset ==
    <<";", " ", "c", "h", "a", "r", "s", "e", "t", "=", "u", "t", "f",
      "-", "8">>

\* Variant: the content type must equal the media type, parameters excluded.
deserialize_exact(resp, object_str) ==
    IF resp.ctype = AppJson THEN json_loads(object_str.v)
    ELSE IF resp.ctype = TextDns THEN ZoneFile_from_text(object_str.v)
    ELSE [raised |-> TRUE, exc |-> Err("InvalidContentType", ""),
          value |-> NoneVal]

deserialize(resp, object_str) ==
    IF Contains(AppJson, resp.ctype) THEN json_loads(object_str.v)
    ELSE IF Contains(TextDns, resp.ctype) THEN ZoneFile_from_text(object_str.v)
    ELSE [raised |-> TRUE, exc |-> Err("InvalidContentType", ""),
          value |-> NoneVal]

(***************************************************************************)
(* DnsClientBase.expected_success                                          *)
(***************************************************************************)

\* RestClient.expected_success: fails with the wrong-status error when the
\* code read is not one of the expected codes.  Codes are compared as Python
\* compares them, so a code that is not an int equals none of them.
RestClient_expected_success(expected_code, read_code) ==
    IF \E c \in expected_code : PyEqInt(read_code, c)
    THEN [raised |-> FALSE, exc |-> NoErr]
    ELSE [raised |-> TRUE,
          exc |-> Err("InvalidHttpSuccessCode", "Unexpected http success status code")]

WarnNotInt == [level |-> "warn", what |-> "received not-int read_code"]

\* Variant: the warning is logged but read_code is handed on as received.
expected_success_nocast(expected_code, read_code) ==
    LET warning == IF read_code.type # "int" THEN <<WarnNotInt>> ELSE <<>>
        base == RestClient_expected_success(expected_code, read_code)
    IN  [raised |-> base.raised, exc |-> base.exc, log |-> warning]

expected_success(expected_code, read_code) ==
    LET warning == IF read_code.type # "int" THEN <<WarnNotInt>> ELSE <<>>
    IN  IF ~Coercible(read_code)
        THEN [raised |-> TRUE,
              exc |-> Err("ValueError", "invalid literal for int()"),
              log |-> warning]
        ELSE LET base == RestClient_expected_success(
                             expected_code, IntStatus(IntOf(read_code)))
             IN  [raised |-> base.raised, exc |-> base.exc, log |-> warning]

(***************************************************************************)
(* The verb helpers                                                        *)
(***************************************************************************)

\* What one call of a helper produced: how it ended (raised exc, or returned
\* the pair (resp, body)), the URI it built, its steps in order, the requests
\* it handed to the transport and what it logged.  entered is false when
\* Python could not bind the arguments and the body never ran.
Raised(exc, u, steps, reqs, lg) ==
    [entered |-> TRUE, raised |-> TRUE, exc |-> exc, pair |-> FALSE,
     resp |-> NoResp, body |-> NoneVal, uri |-> u, trace |-> steps,
     requests |-> reqs, log |-> lg]

Returned(resp, body, u, steps, reqs, lg) ==
    [entered |-> TRUE, raised |-> FALSE, exc |-> NoErr, pair |-> TRUE,
     resp |-> resp, body |-> body, uri |-> u, trace |-> steps,
     requests |-> reqs, log |-> lg]

\* Variant: a failed transport call is made a second time.
send_retry(method, u, body, t) ==
    IF t.fails
    THEN <<[method |-> method, uri |-> u, body |-> body],
           [method |-> method, uri |-> u, body |-> body]>>
    ELSE <<[method |-> method, uri |-> u, body |-> body]>>

\* resp, body = self.<method>(uri, ...): the one request of a helper.  The
\* transport's answer t is its response, or the error it raises.
send(method, u, body, t) == <<[method |-> method, uri |-> u, body |-> body]>>

NoBody == Val("None", "")

expected_create_with_200 == {200, 201, 202}

expected_create == {201, 202}

expected_show == {200}

expected_list == {200}

expected_put == {200, 202}

expected_update == {200, 202}

expected_delete == {202, 204}

\* Variant: the body is deserialized before the status is validated.
deserialize_then_validate(expected_code, t, u, steps, reqs) ==
    LET d == deserialize(t.resp, t.body)
        steps1 == steps \o <<"deserialize">>
    IN  IF d.raised THEN Raised(d.exc, u, steps1, reqs, <<>>)
        ELSE LET v == expected_success(expected_code, t.resp.status)
                 steps2 == steps1 \o <<"expected_success">>
             IN  IF v.raised THEN Raised(v.exc, u, steps2, reqs, v.log)
                 ELSE Returned(t.resp, d.value, u, steps2, reqs, v.log)

\* self.expected_success(codes, resp.status)
\* return resp, self.deserialize(resp, body)
validate_then_deserialize(expected_code, t, u, steps, reqs) ==
    LET v == expected_success(expected_code, t.resp.status)
        steps1 == steps \o <<"expected_success">>
    IN  IF v.raised THEN Raised(v.exc, u, steps1, reqs, v.log)
        ELSE LET d == deserialize(t.resp, t.body)
                 steps2 == steps1 \o <<"deserialize">>
             IN  IF d.raised THEN Raised(d.exc, u, steps2, reqs, v.log)
                 ELSE Returned(t.resp, d.value, u, steps2, reqs, v.log)

_create_request(prefix, resource, object_dict, params, t) ==
    LET body == serialize(object_dict)
        u == get_uri(prefix, resource, NoneStr, params)
        steps == <<"serialize", "get_uri", "post">>
        reqs == send("POST", u, Val("str", body), t)
    IN  IF t.fails THEN Raised(t.exc, u, steps, reqs, <<>>)
        ELSE validate_then_deserialize(expected_create, t, u, steps, reqs)

_show_request(prefix, resource, uuid, params, t) ==
    LET u == get_uri(prefix, resource, uuid, params)
        steps == <<"get_uri", "get">>
        reqs == send("GET", u, NoBody, t)
    IN  IF t.fails THEN Raised(t.exc, u, steps, reqs, <<>>)
        ELSE validate_then_deserialize(expected_show, t, u, steps, reqs)

_list_request(prefix, resource, params, t) ==
    LET u == get_uri(prefix, resource, NoneStr, params)
        steps == <<"get_uri", "get">>
        reqs == send("GET", u, NoBody, t)
    IN  IF t.fails THEN Raised(t.exc, u, steps, reqs, <<>>)
        ELSE validate_then_deserialize(expected_list, t, u, steps, reqs)

_put_request(prefix, resource, uuid, object_dict, params, t) ==
    LET body == serialize(object_dict)
        u == get_uri(prefix, resource, uuid, params)
        steps == <<"serialize", "get_uri", "put">>
        reqs == send("PUT", u, Val("str", body), t)
    IN  IF t.fails THEN Raised(t.exc, u, steps, reqs, <<>>)
        ELSE validate_then_deserialize(expected_put, t, u, steps, reqs)

_update_request(prefix, resource, uuid, object_dict, params, t) ==
    LET body == serialize(object_dict)
        u == get_uri(prefix, resource, uuid, params)
        steps == <<"serialize", "get_uri", "patch">>
        reqs == send("PATCH", u, Val("str", body), t)
    IN  IF t.fails THEN Raised(t.exc, u, steps, reqs, <<>>)
        ELSE validate_then_deserialize(expected_update, t, u, steps, reqs)

_delete_request(prefix, resource, uuid, params, t) ==
    LET u == get_uri(prefix, resource, uuid, params)
        steps == <<"get_uri", "delete">>
        reqs == send("DELETE", u, NoBody, t)
    IN  IF t.fails THEN Raised(t.exc, u, steps, reqs, <<>>)
        ELSE LET v == expected_success(expected_delete, t.resp.status)
                 steps1 == steps \o <<"expected_success">>
             IN  IF v.raised THEN Raised(v.exc, u, steps1, reqs, v.log)
                 ELSE IF PyEqInt(t.resp.status, 202)
                 THEN LET d == deserialize(t.resp, t.body)
                          steps2 == steps1 \o <<"deserialize">>
                      IN  IF d.raised
                          THEN Raised(d.exc, u, steps2, reqs, v.log)
                          ELSE Returned(t.resp, d.value, u, steps2, reqs, v.log)
                 ELSE Returned(t.resp, t.body, u, steps1, reqs, v.log)

(***************************************************************************)
(* Calling a helper, directly or through handle_errors                     *)
(***************************************************************************)

Helpers ==
    {"_create_request", "_show_request", "_list_request", "_put_request",
     "_update_request", "_delete_request"}

\* Keyword arguments of a call: the names passed and their values (a name
\* that is not passed holds its default here).
Kwargs(names, params, ignore_errors) ==
    [names |-> names, params |-> params, ignore_errors |-> ignore_errors]

\* The parameter names of each helper's signature.
Accepts(f) ==
    CASE f = "_create_request" ->
            {"resource", "object_dict", "params", "headers", "extra_headers"}
      [] f = "_show_request" -> {"resource", "uuid", "headers", "params"}
      [] f = "_list_request" -> {"resource", "params"}
      [] f = "_put_request" -> {"resource", "uuid", "object_dict", "params"}
      [] f = "_update_request" -> {"resource", "uuid", "object_dict", "params"}
      [] f = "_delete_request" -> {"resource", "uuid", "params"}

\* f(*args, **kwargs): Python binds the arguments (a keyword the signature
\* does not name is a TypeError and the body does not run), then runs f.
Invoke(f, prefix, a, kwargs, t) ==
    IF ~(kwargs.names \subseteq Accepts(f))
    THEN [entered |-> FALSE, raised |-> TRUE,
          exc |-> Err("TypeError", "got an unexpected keyword argument"),
          pair |-> FALSE, resp |-> NoResp, body |-> NoneVal, uri |-> <<>>,
          trace |-> <<>>, requests |-> <<>>, log |-> <<>>]
    ELSE LET params == IF "params" \in kwargs.names
                       THEN kwargs.params ELSE NoneDict
         IN  CASE f = "_create_request" ->
                    _create_request(prefix, a.resource, a.object_dict, params, t)
               [] f = "_show_request" ->
                    _show_request(prefix, a.resource, a.uuid, params, t)
               [] f = "_list_request" ->
                    _list_request(prefix, a.resource, params, t)
               [] f = "_put_request" ->
                    _put_request(prefix, a.resource, a.uuid, a.object_dict,
                                 params, t)
               [] f = "_update_request" ->
                    _update_request(prefix, a.resource, a.uuid, a.object_dict,
                                    params, t)
               [] f = "_delete_request" ->
                    _delete_request(prefix, a.resource, a.uuid, params, t)

\* Variant: with no ignore_errors given, every exception is ignored.
ignored_errors_default_all(kwargs) ==
    IF "ignore_errors" \in kwargs.names THEN kwargs.ignore_errors
    ELSE {"Exception"}

\* ignored_errors = kwargs.get(param_name, tuple())
ignored_errors(kwargs) ==
    IF "ignore_errors" \in kwargs.names THEN kwargs.ignore_errors ELSE {}

\* Variant: ignore_errors is left among the keyword arguments.
del_ignore_errors_kept(kwargs) == kwargs

\* if param_name in kwargs: del kwargs[param_name]
del_ignore_errors(kwargs) ==
    [kwargs EXCEPT !.names = @ \ {"ignore_errors"}, !.ignore_errors = {}]

DebugIgnoring(kind) == [level |-> "debug", what |-> kind]

\* Variant: the caught error is logged and raised again.
suppress_reraise(r) ==
    [r EXCEPT !.log = @ \o <<DebugIgnoring(r.exc.kind)>>]

\* except ignored_errors as e: LOG.debug(...); the wrapper then returns None.
suppress(r) ==
    [r EXCEPT !.raised = FALSE, !.exc = NoErr, !.pair = FALSE,
              !.resp = NoResp, !.body = NoneVal,
              !.log = @ \o <<DebugIgnoring(r.exc.kind)>>]

\* handle_errors(f)(*args, **kwargs): what f got, what f did, and what the
\* caller gets.
handle_errors(f, prefix, a, kwargs, t) ==
    LET ignored == ignored_errors(kwargs)
        passed == del_ignore_errors(kwargs)
        r == Invoke(f, prefix, a, passed, t)
    IN  [received |-> [invocations |-> 1, args |-> a, kwargs |-> passed],
         inner |-> r,
         outer |-> IF r.raised /\ Catches(ignored, r.exc) THEN suppress(r)
                   ELSE r]

\* A call that does not go through the decorator.
direct(f, prefix, a, kwargs, t) ==
    LET r == Invoke(f, prefix, a, kwargs, t)
    IN  [received |-> [invocations |-> 1, args |-> a, kwargs |-> kwargs],
         inner |-> r, outer |-> r]

(***************************************************************************)
(* Inputs                                                                  *)
(***************************************************************************)

\* uri_prefix: '' in DnsClientBase, a versioned path in a client built on it.
Prefixes == {<<>>, <<"/", "v", "2">>}

Resources == {<<"z", "o", "n", "e", "s">>, <<"t", "l", "d", "s">>}

Uuids == {NoneStr, Str(<<>>), Str(<<"u", "1">>)}

ParamKeys == {<<"k">>, <<"n">>, <<"a", "&">>}

ParamValues == {<<"5">>, <<"a", " ", "b">>}

ParamItems == [k : ParamKeys, v : ParamValues]

\* The items of a dict: at most MaxParams of them, no key twice.
ParamLists ==
    UNION {{q \in [1..n -> ParamItems] :
               \A i \in 1..n : \A j \in 1..n : q[i].k = q[j].k => i = j} :
           n \in 0..MaxParams}

ParamMappings == {NoneDict} \cup {Dict(q) : q \in ParamLists}

Payloads == {NoneVal, Val("dict", "id=1")}

ContentTypes ==
    {AppJson, AppJson \o Charset, TextDns, TextDns \o Charset, TextPlain,
     TextDns \o <<",">> \o AppJson, <<>>}

BodyTexts == {JsonObjText, JsonStrText, ZoneText, EmptyText}

Statuses ==
    {IntStatus(200), IntStatus(201), IntStatus(202), IntStatus(204),
     IntStatus(404), StrStatus(<<"2", "0", "0">>), StrStatus(<<"2", "0", "2">>),
     StrStatus(<<"2", "0", "4">>), StrStatus(<<"4", "0", "4">>),
     StrStatus(<<"a", "b", "c">>)}

ExpectedSets ==
    {expected_create, expected_show, expected_put, expected_delete}

\* What the transport answers to the one request of a helper call.
TransportErrors ==
    {Err("NotFound", "Object not found"),
     Err("TimeoutException", "Request timed out")}

HelperContentTypes == {AppJson \o Charset, TextDns, TextPlain}

HelperBodyTexts == {JsonObjText, EmptyText}

Transports ==
    {[fails |-> TRUE, exc |-> e, resp |-> NoResp, body |-> NoneVal] :
        e \in TransportErrors}
    \cup
    {[fails |-> FALSE, exc |-> NoErr, resp |-> Resp(st, ct),
      body |-> Val("str", b)] :
        st \in Statuses, ct \in HelperContentTypes, b \in HelperBodyTexts}

NoTransport == [fails |-> FALSE, exc |-> NoErr, resp |-> NoResp, body |-> NoneVal]

HelperParams == {NoneDict, Dict(<<[k |-> <<"k">>, v |-> <<"5">>]>>)}

\* Keyword arguments of a direct call: params or not, ignore_errors or not.
DirectKwargs ==
    {Kwargs({}, NoneDict, {})}
    \cup {Kwargs({"params"}, p, {}) : p \in HelperParams}
    \cup {Kwargs({"ignore_errors"}, NoneDict, {"InvalidHttpSuccessCode"})}

IgnoreSets ==
    {{}, {"InvalidHttpSuccessCode"}, {"NotFound"}, {"RestClientException"},
     {"NotFound", "InvalidContentType"}}

\* Keyword arguments of a call through handle_errors.
WrappedKwargs ==
    {Kwargs({}, NoneDict, {}),
     Kwargs({"params"}, Dict(<<[k |-> <<"k">>, v |-> <<"5">>]>>), {})}
    \cup {Kwargs({"ignore_errors"}, NoneDict, ig) : ig \in IgnoreSets}
    \cup {Kwargs({"params", "ignore_errors"},
                 Dict(<<[k |-> <<"k">>, v |-> <<"5">>]>>), ig) :
             ig \in {{"InvalidHttpSuccessCode"}, {"NotFound"}}}

Args(resource, uuid, object_dict) ==
    [resource |-> resource, uuid |-> uuid, object_dict |-> object_dict]

\* The positional arguments each helper is called with.
HelperArgs(f) ==
    CASE f \in {"_create_request"} ->
            {Args(<<"z", "o", "n", "e", "s">>, NoneStr, o) : o \in Payloads}
      [] f \in {"_put_request", "_update_request"} ->
            {Args(<<"z", "o", "n", "e", "s">>, Str(<<"u", "1">>), o) :
                o \in Payloads}
      [] f \in {"_show_request", "_delete_request"} ->
            {Args(<<"z", "o", "n", "e", "s">>, Str(<<"u", "1">>), NoneVal)}
      [] f = "_list_request" ->
            {Args(<<"z", "o", "n", "e", "s">>, NoneStr, NoneVal)}

(***************************************************************************)
(* State                                                                   *)
(***************************************************************************)

Call(op, wrapped, a, kwargs, expected, t) ==
    [op |-> op, wrapped |-> wrapped, args |-> a, kwargs |-> kwargs,
     expected |-> expected, t |-> t]

NoArgs == Args(<<>>, NoneStr, NoneVal)

NoKwargs == Kwargs({}, NoneDict, {})

NoReceived == [invocations |-> 0, args |-> NoArgs, kwargs |-> NoKwargs]

\* How a call ended: raised exc, returned the pair (resp, body), or returned
\* the single value body (None when the call returns nothing); entered is
\* false when the arguments could not be bound and the body never ran.
Outcome(r) ==
    [entered |-> r.entered, raised |-> r.raised, exc |-> r.exc,
     pair |-> r.pair, resp |-> r.resp, body |-> r.body]

ReturnedValue(v) ==
    [entered |-> TRUE, raised |-> FALSE, exc |-> NoErr, pair |-> FALSE, resp |-> NoResp,
     body |-> v]

RaisedError(e) ==
    [entered |-> TRUE, raised |-> TRUE, exc |-> e, pair |-> FALSE, resp |-> NoResp,
     body |-> NoneVal]

Init ==
    /\ uri_prefix \in Prefixes
    /\ call = Call("none", FALSE, NoArgs, NoKwargs, {}, NoTransport)
    /\ received = NoReceived
    /\ inner = ReturnedValue(NoneVal)
    /\ outcome = ReturnedValue(NoneVal)
    /\ uri = <<>>
    /\ trace = <<>>
    /\ requests = <<>>
    /\ log = <<>>

(***************************************************************************)
(* Operations                                                              *)
(***************************************************************************)

\* No call is in progress: the client is synchronous, one call at a time.
Idle == call.op = "none"

GetUri ==
    /\ Idle
    /\ \E r \in Resources, u \in Uuids, p \in ParamMappings :
        /\ call' = Call("get_uri", FALSE, Args(r, u, NoneVal),
                        Kwargs({"params"}, p, {}), {}, NoTransport)
        /\ uri' = get_uri(uri_prefix, r, u, p)
        /\ outcome' = ReturnedValue(NoneVal)
        /\ inner' = outcome'
        /\ received' = NoReceived
        /\ trace' = <<"get_uri">>
        /\ requests' = <<>>
        /\ log' = <<>>
        /\ UNCHANGED uri_prefix

Serialize ==
    /\ Idle
    /\ \E o \in Payloads \cup {Val("dict", ""), Val("str", "abc")} :
        /\ call' = Call("serialize", FALSE, Args(<<>>, NoneStr, o), NoKwargs,
                        {}, NoTransport)
        /\ outcome' = ReturnedValue(Val("str", serialize(o)))
        /\ inner' = outcome'
        /\ received' = NoReceived
        /\ uri' = <<>>
        /\ trace' = <<"serialize">>
        /\ requests' = <<>>
        /\ log' = <<>>
        /\ UNCHANGED uri_prefix

Deserialize ==
    /\ Idle
    /\ \E ct \in ContentTypes, b \in BodyTexts :
        LET t == [fails |-> FALSE, exc |-> NoErr,
                  resp |-> Resp(IntStatus(200), ct), body |-> Val("str", b)]
            d == deserialize(t.resp, t.body)
        IN  /\ call' = Call("deserialize", FALSE, NoArgs, NoKwargs, {}, t)
            /\ outcome' = IF d.raised THEN RaisedError(d.exc)
                          ELSE ReturnedValue(d.value)
            /\ inner' = outcome'
            /\ received' = NoReceived
            /\ uri' = <<>>
            /\ trace' = <<"deserialize">>
            /\ requests' = <<>>
            /\ log' = <<>>
            /\ UNCHANGED uri_prefix

ExpectedSuccess ==
    /\ Idle
    /\ \E ex \in ExpectedSets, st \in Statuses :
        LET t == [fails |-> FALSE, exc |-> NoErr, resp |-> Resp(st, <<>>),
                  body |-> NoneVal]
            v == expected_success(ex, st)
        IN  /\ call' = Call("expected_success", FALSE, NoArgs, NoKwargs, ex, t)
            /\ outcome' = IF v.raised THEN RaisedError(v.exc)
                          ELSE ReturnedValue(NoneVal)
            /\ inner' = outcome'
            /\ received' = NoReceived
            /\ uri' = <<>>
            /\ trace' = <<"expected_success">>
            /\ requests' = <<>>
            /\ log' = v.log
            /\ UNCHANGED uri_prefix

\* The state after a helper call that produced c (received, inner, outer).
After(f, wrapped, a, kwargs, t, c) ==
    /\ call' = Call(f, wrapped, a, kwargs, {}, t)
    /\ received' = c.received
    /\ inner' = Outcome(c.inner)
    /\ outcome' = Outcome(c.outer)
    /\ uri' = c.outer.uri
    /\ trace' = c.outer.trace
    /\ requests' = c.outer.requests
    /\ log' = c.outer.log
    /\ UNCHANGED uri_prefix

CreateRequest ==
    /\ Idle
    /\ \E a \in HelperArgs("_create_request"), kw \in DirectKwargs, t \in Transports :
        After("_create_request", FALSE, a, kw, t,
              direct("_create_request", uri_prefix, a, kw, t))

ShowRequest ==
    /\ Idle
    /\ \E a \in HelperArgs("_show_request"), kw \in DirectKwargs, t \in Transports :
        After("_show_request", FALSE, a, kw, t,
              direct("_show_request", uri_prefix, a, kw, t))

ListRequest ==
    /\ Idle
    /\ \E a \in HelperArgs("_list_request"), kw \in DirectKwargs, t \in Transports :
        After("_list_request", FALSE, a, kw, t,
              direct("_list_request", uri_prefix, a, kw, t))

PutRequest ==
    /\ Idle
    /\ \E a \in HelperArgs("_put_request"), kw \in DirectKwargs, t \in Transports :
        After("_put_request", FALSE, a, kw, t,
              direct("_put_request", uri_prefix, a, kw, t))

UpdateRequest ==
    /\ Idle
    /\ \E a \in HelperArgs("_update_request"), kw \in DirectKwargs, t \in Transports :
        After("_update_request", FALSE, a, kw, t,
              direct("_update_request", uri_prefix, a, kw, t))

DeleteRequest ==
    /\ Idle
    /\ \E a \in HelperArgs("_delete_request"), kw \in DirectKwargs, t \in Transports :
        After("_delete_request", FALSE, a, kw, t,
              direct("_delete_request", uri_prefix, a, kw, t))

\* A helper called through the handle_errors decorator.
HandleErrors ==
    /\ Idle
    /\ \E f \in Helpers :
        \E a \in HelperArgs(f), kw \in WrappedKwargs, t \in Transports :
            After(f, TRUE, a, kw, t, handle_errors(f, uri_prefix, a, kw, t))

\* The caller has its answer; nothing of the call is kept by the client.
Discard ==
    /\ ~Idle
    /\ call' = Call("none", FALSE, NoArgs, NoKwargs, {}, NoTransport)
    /\ received' = NoReceived
    /\ inner' = ReturnedValue(NoneVal)
    /\ outcome' = ReturnedValue(NoneVal)
    /\ uri' = <<>>
    /\ trace' = <<>>
    /\ requests' = <<>>
    /\ log' = <<>>
    /\ UNCHANGED uri_prefix

Next ==
    \/ GetUri
    \/ Serialize
    \/ Deserialize
    \/ ExpectedSuccess
    \/ CreateRequest
    \/ ShowRequest
    \/ ListRequest
    \/ PutRequest
    \/ UpdateRequest
    \/ DeleteRequest
    \/ HandleErrors
    \/ Discard

Spec == Init /\ [][Next]_vars

(***************************************************************************)
(* Properties                                                              *)
(***************************************************************************)

HelperCall == call.op \in Helpers

\* The call's ignore_errors, the empty tuple when it passed none.
GivenIgnored ==
    IF "ignore_errors" \in call.kwargs.names THEN call.kwargs.ignore_errors
    ELSE {}

\* The number a status stands for, read off its digits.
StatusNumber(st) ==
    CASE st.type = "int" -> st.n
      [] st.s = <<"2", "0", "0">> -> 200
      [] st.s = <<"2", "0", "2">> -> 202
      [] st.s = <<"2", "0", "4">> -> 204
      [] st.s = <<"4", "0", "4">> -> 404
      [] OTHER -> -1

IsNumber(st) == StatusNumber(st) >= 0

\* The expected set of each helper, as the interface states it.
StatedExpected(f) ==
    CASE f = "_create_request" -> {201, 202}
      [] f = "_show_request" -> {200}
      [] f = "_list_request" -> {200}
      [] f = "_put_request" -> {200, 202}
      [] f = "_update_request" -> {200, 202}
      [] f = "_delete_request" -> {202, 204}

\* The HTTP method of each helper, as the interface states it.
StatedMethod(f) ==
    CASE f = "_create_request" -> "POST"
      [] f = "_show_request" -> "GET"
      [] f = "_list_request" -> "GET"
      [] f = "_put_request" -> "PUT"
      [] f = "_update_request" -> "PATCH"
      [] f = "_delete_request" -> "DELETE"

\* The classes an exception of each class is an instance of.
Ancestry(kind) ==
    CASE kind \in {"NotFound", "InvalidContentType", "InvalidHttpSuccessCode",
                   "TimeoutException"} ->
            {kind, "RestClientException", "TempestException", "Exception"}
      [] kind \in {"TypeError", "ValueError"} -> {kind, "Exception"}
      [] OTHER -> {kind}

Count(c, s) == Cardinality({i \in 1..Len(s) : s[i] = c})

Occurs(step) == \E i \in 1..Len(trace) : trace[i] = step

\* Every step of the trace is in `order`, in the order's order, once each.
InOrder(order) ==
    /\ \A i \in 1..Len(trace) : \E j \in 1..Len(order) : trace[i] = order[j]
    /\ \A i \in 1..Len(trace) : \A k \in 1..Len(trace) :
          i < k => \E j \in 1..Len(order) : \E m \in 1..Len(order) :
                      j < m /\ trace[i] = order[j] /\ trace[k] = order[m]

SendsBody == call.op \in {"_create_request", "_put_request", "_update_request"}

MethodStep ==
    CASE call.op = "_create_request" -> "post"
      [] call.op \in {"_show_request", "_list_request"} -> "get"
      [] call.op = "_put_request" -> "put"
      [] call.op = "_update_request" -> "patch"
      [] OTHER -> "delete"

\* C1: get_uri returns prefix/resource, followed by /uuid exactly when an
\* identifier is given and by ?encoded-params exactly when parameters are
\* given (None, '' and {} count as not given); nothing follows the resource
\* when both are missing, no '?' appears without parameters, and the query
\* string holds one key=value pair per parameter, joined by '&'.
C1_GetUriShape ==
    call.op = "get_uri" =>
        LET u == call.args.uuid
            p == call.kwargs.params
            base == uri_prefix \o <<"/">> \o call.args.resource
            noUuid == u.none \/ u.s = <<>>
            noParams == p.none \/ p.items = <<>>
            query == urlencode(p)
        IN  /\ (noUuid /\ noParams) => uri = base
            /\ (~noUuid /\ noParams) => uri = base \o <<"/">> \o u.s
            /\ (noUuid /\ ~noParams) => uri = base \o <<"?">> \o query
            /\ (~noUuid /\ ~noParams) =>
                   uri = base \o <<"/">> \o u.s \o <<"?">> \o query
            /\ noParams => Count("?", uri) = 0
            /\ noUuid => Count("/", uri) = Count("/", base)
            /\ uri[Len(uri)] \notin {"/", "?"}
            /\ ~noParams =>
                   /\ Count("?", uri) = 1
                   /\ Count("=", uri) = Len(p.items)
                   /\ Count("&", uri) = Len(p.items) - 1
                   /\ Count(" ", uri) = 0

C1_Witness ==
    /\ call.op = "get_uri"
    /\ call.args.uuid = Str(<<"u", "1">>)
    /\ Len(call.kwargs.params.items) = 2
    /\ uri_prefix = <<"/", "v", "2">>
    /\ Count("?", uri) = 1

\* C2: a verb helper returns (response, body) only when the status received
\* is in the helper's expected set (Create {201,202}, Show {200}, List {200},
\* PUT {200,202}, PATCH {200,202}, Delete {202,204}); for every other status
\* the helper fails in the status validator, with the wrong-status error when
\* the status is a number, before any deserialization and with no result.
C2_ResultOnlyForExpectedStatus ==
    (HelperCall /\ inner.entered /\ ~call.t.fails) =>
        LET st == call.t.resp.status
            ok == IsNumber(st) /\ StatusNumber(st) \in StatedExpected(call.op)
        IN  /\ inner.pair => ok
            /\ ~ok =>
                 /\ inner.raised
                 /\ ~inner.pair
                 /\ inner.body = NoneVal
                 /\ trace[Len(trace)] = "expected_success"
                 /\ ~Occurs("deserialize")
                 /\ IsNumber(st) => inner.exc.kind = "InvalidHttpSuccessCode"

C2_Witness ==
    /\ call.op = "_create_request"
    /\ ~call.wrapped
    /\ call.t.resp.status = IntStatus(200)
    /\ outcome.raised
    /\ outcome.exc.kind = "InvalidHttpSuccessCode"

JsonContentTypes == {AppJson, AppJson \o Charset, TextDns \o <<",">> \o AppJson}

ZoneContentTypes == {TextDns, TextDns \o Charset}

\* C3: deserialize parses the body as JSON when the content type contains
\* "application/json"; otherwise, when it contains "text/dns", it returns a
\* structured zone-file value, never the raw string; for every other content
\* type it fails with the unsupported-content-type error and returns nothing.
C3_DeserializeDispatch ==
    call.op = "deserialize" =>
        LET ct == call.t.resp.ctype
            text == call.t.body.v
            parsed == json_loads(text)
        IN  /\ ct \in JsonContentTypes =>
                 /\ outcome.raised = parsed.raised
                 /\ outcome.exc = parsed.exc
                 /\ outcome.body = parsed.value
                 /\ outcome.body # call.t.body
            /\ ct \in ZoneContentTypes =>
                 /\ ~outcome.raised
                 /\ outcome.body.kind = "ZoneFile"
                 /\ outcome.body # call.t.body
            /\ ct \notin (JsonContentTypes \cup ZoneContentTypes) =>
                 /\ outcome.raised
                 /\ outcome.exc.kind = "InvalidContentType"
                 /\ outcome.body = NoneVal

C3_Witness ==
    /\ call.op = "deserialize"
    /\ call.t.resp.ctype = TextPlain
    /\ outcome.raised
    /\ outcome.exc.kind = "InvalidContentType"

\* C4: Delete, for every response whose status passes the validator: a
\* status of 202 (the int, or a value the validator coerces to it) has its
\* body deserialized, and a status of 204 gets the raw body back unmodified
\* with deserialize not invoked.
C4_DeleteBodyFollowsStatus ==
    (call.op = "_delete_request" /\ inner.entered /\ ~call.t.fails
        /\ IsNumber(call.t.resp.status)
        /\ StatusNumber(call.t.resp.status) \in {202, 204}) =>
        LET st == call.t.resp.status
            d == deserialize(call.t.resp, call.t.body)
        IN  /\ StatusNumber(st) = 202 =>
                 /\ Occurs("deserialize")
                 /\ inner.raised = d.raised
                 /\ inner.pair => inner.body = d.value
            /\ StatusNumber(st) = 204 =>
                 /\ ~Occurs("deserialize")
                 /\ inner.pair
                 /\ inner.body = call.t.body

\* C5: through handle_errors, an error of the wrapped operation that is an
\* instance of a class named in ignore_errors is caught and logged at debug
\* level, and the call returns None (no result pair); an error of any other
\* class, or any error when ignore_errors is missing or empty, reaches the
\* caller as raised.
C5_IgnoredErrorsOnly ==
    (HelperCall /\ call.wrapped /\ inner.raised) =>
        IF GivenIgnored \cap Ancestry(inner.exc.kind) # {}
        THEN /\ ~outcome.raised
             /\ outcome.exc = NoErr
             /\ ~outcome.pair
             /\ outcome.body = NoneVal
             /\ outcome.resp = NoResp
             /\ log # <<>>
             /\ log[Len(log)] = [level |-> "debug", what |-> inner.exc.kind]
        ELSE /\ outcome = inner
             /\ \A i \in 1..Len(log) : log[i].level # "debug"

C5_Witness ==
    /\ HelperCall
    /\ call.wrapped
    /\ call.t.fails
    /\ inner.raised
    /\ inner.exc.kind = "NotFound"
    /\ GivenIgnored = {"NotFound"}
    /\ ~outcome.raised
    /\ outcome.body = NoneVal

\* C6 as stated: Create returns without error for status 201, raises the
\* unexpected-status error for status 404, and, given ignore_errors naming
\* that error, returns None and logs instead of raising: the Create helper
\* itself takes the ignore_errors argument.
C6_CreateTakesIgnoreErrors ==
    (call.op = "_create_request" /\ ~call.t.fails) =>
        LET st == call.t.resp.status
            given == "ignore_errors" \in call.kwargs.names
            ignoring ==
                GivenIgnored \cap Ancestry("InvalidHttpSuccessCode") # {}
        IN  /\ (st = IntStatus(201) /\ ~given) =>
                 outcome.exc.kind # "InvalidHttpSuccessCode"
            /\ (st = IntStatus(404) /\ ~given) =>
                 (outcome.raised /\ outcome.exc.kind = "InvalidHttpSuccessCode")
            /\ (st = IntStatus(404) /\ ignoring) =>
                 /\ ~outcome.raised
                 /\ ~outcome.pair
                 /\ outcome.body = NoneVal
                 /\ log # <<>>

\* C6 as amended: Create returns without error for status 201 (the pair,
\* when the body deserializes) and raises the unexpected-status error for
\* status 404; called through handle_errors with ignore_errors naming that
\* error, status 404 gives None and a debug log entry instead of the error.
\* The helper itself has no ignore_errors parameter: passed to it directly,
\* the call fails with TypeError before any request is made.
C6_CreateIgnoresThroughWrapper ==
    (call.op = "_create_request" /\ ~call.t.fails) =>
        LET st == call.t.resp.status
            ignoring ==
                GivenIgnored \cap Ancestry("InvalidHttpSuccessCode") # {}
            direct_ignore == ~call.wrapped /\ "ignore_errors" \in call.kwargs.names
        IN  /\ direct_ignore =>
                 /\ ~inner.entered
                 /\ outcome.raised
                 /\ outcome.exc.kind = "TypeError"
                 /\ requests = <<>>
                 /\ log = <<>>
            /\ (~direct_ignore /\ st = IntStatus(201)) =>
                 /\ inner.entered
                 /\ outcome.exc.kind # "InvalidHttpSuccessCode"
                 /\ (call.t.resp.ctype \in {AppJson, AppJson \o Charset}
                        /\ call.t.body.v = JsonObjText) =>
                        (~outcome.raised /\ outcome.pair
                            /\ outcome.body = Val("dict", "id=1"))
            /\ (~direct_ignore /\ st = IntStatus(404)) =>
                 /\ inner.raised
                 /\ inner.exc.kind = "InvalidHttpSuccessCode"
                 /\ ~ignoring => outcome = inner
                 /\ (call.wrapped /\ ignoring) =>
                        /\ ~outcome.raised
                        /\ ~outcome.pair
                        /\ outcome.body = NoneVal
                        /\ log = <<[level |-> "debug",
                                    what |-> "InvalidHttpSuccessCode"]>>

C6_Witness ==
    /\ call.op = "_create_request"
    /\ call.wrapped
    /\ call.t.resp.status = IntStatus(404)
    /\ GivenIgnored = {"InvalidHttpSuccessCode"}
    /\ inner.raised
    /\ ~outcome.raised
    /\ ~outcome.pair
    /\ Len(log) = 1

\* C7: expected_success given a status that is not an int but converts to
\* one logs a warning, does not fail for that, and passes exactly when the
\* number it stands for is in the expected set, failing with the
\* wrong-status error otherwise; a status that is an int logs no warning.
C7_NonIntStatusIsCoerced ==
    call.op = "expected_success" =>
        LET st == call.t.resp.status
        IN  /\ st.type = "int" => log = <<>>
            /\ st.type # "int" =>
                 log = <<[level |-> "warn",
                          what |-> "received not-int read_code"]>>
            /\ IsNumber(st) =>
                 /\ outcome.raised <=> StatusNumber(st) \notin call.expected
                 /\ outcome.raised =>
                        outcome.exc.kind = "InvalidHttpSuccessCode"

C7_Witness ==
    /\ call.op = "expected_success"
    /\ call.t.resp.status = StrStatus(<<"2", "0", "2">>)
    /\ call.expected = {202, 204}
    /\ ~outcome.raised
    /\ Len(log) = 1

\* C8: a verb helper that runs makes exactly one transport call, with its
\* own method (POST, GET, GET, PUT, PATCH, DELETE); when that call fails the
\* helper makes no second call, validates and deserializes nothing, and the
\* transport's error is the error the helper raises.
C8_OneTransportCall ==
    (HelperCall /\ inner.entered) =>
        /\ Len(requests) = 1
        /\ requests[1].method = StatedMethod(call.op)
        /\ requests[1].uri = uri
        /\ call.t.fails =>
             /\ ~Occurs("expected_success")
             /\ ~Occurs("deserialize")
             /\ inner.raised
             /\ inner.exc = call.t.exc
             /\ ~call.wrapped => outcome = inner

C8_Witness ==
    /\ call.op = "_update_request"
    /\ ~call.wrapped
    /\ call.t.fails
    /\ call.t.exc.kind = "TimeoutException"
    /\ Len(requests) = 1
    /\ outcome.raised
    /\ outcome.exc = call.t.exc

\* C9 as stated: the steps of every verb helper occur in the order build URI,
\* serialize body (if the verb sends one), transport call, status validation,
\* deserialization; with an unexpected status and an unsupported content
\* type the helper fails with the unexpected-status error and deserialize is
\* not invoked.
C9_UriThenSerialize ==
    (HelperCall /\ inner.entered) =>
        /\ InOrder(<<"get_uri", "serialize", MethodStep, "expected_success",
                     "deserialize">>)
        /\ (~call.t.fails /\ IsNumber(call.t.resp.status)
              /\ StatusNumber(call.t.resp.status) \notin StatedExpected(call.op)
              /\ call.t.resp.ctype = TextPlain) =>
                 /\ inner.exc.kind = "InvalidHttpSuccessCode"
                 /\ ~Occurs("deserialize")

\* C9 as amended: the steps of every verb helper occur in the order
\* serialize body (if the verb sends one), build URI, transport call, status
\* validation, deserialization (Delete deserializes only a status equal to
\* 202); validation always precedes deserialization, so with an unexpected
\* status and an unsupported content type the helper fails with the
\* unexpected-status error and deserialize is not invoked.
C9_SerializeThenUri ==
    (HelperCall /\ inner.entered) =>
        /\ InOrder(<<"serialize", "get_uri", MethodStep, "expected_success",
                     "deserialize">>)
        /\ Occurs("serialize") <=> SendsBody
        /\ Occurs("get_uri") /\ Occurs(MethodStep)
        /\ Occurs("expected_success") <=> ~call.t.fails
        /\ Occurs("deserialize") =>
             /\ Occurs("expected_success")
             /\ IsNumber(call.t.resp.status)
             /\ StatusNumber(call.t.resp.status) \in StatedExpected(call.op)
        /\ (inner.pair /\ ~Occurs("deserialize")) =>
             (call.op = "_delete_request"
                 /\ call.t.resp.status # IntStatus(202))
        /\ (~call.t.fails /\ IsNumber(call.t.resp.status)
              /\ StatusNumber(call.t.resp.status) \notin StatedExpected(call.op)
              /\ call.t.resp.ctype = TextPlain) =>
                 /\ inner.exc.kind = "InvalidHttpSuccessCode"
                 /\ ~Occurs("deserialize")

C9_Witness ==
    /\ call.op = "_create_request"
    /\ call.t.resp.status = IntStatus(404)
    /\ call.t.resp.ctype = TextPlain
    /\ inner.exc.kind = "InvalidHttpSuccessCode"
    /\ trace = <<"serialize", "get_uri", "post", "expected_success">>

\* C10: handle_errors calls the wrapped operation once, with the caller's
\* positional arguments and every keyword argument except ignore_errors,
\* which never reaches it; when the operation returns normally the caller
\* gets its return value unchanged, ignore_errors given or not.
C10_WrapperIsTransparent ==
    (HelperCall /\ call.wrapped) =>
        /\ received.invocations = 1
        /\ received.args = call.args
        /\ "ignore_errors" \notin received.kwargs.names
        /\ received.kwargs.names = call.kwargs.names \ {"ignore_errors"}
        /\ received.kwargs.params = call.kwargs.params
        /\ inner.entered
        /\ Len(requests) = 1
        /\ ~inner.raised => (outcome = inner /\ outcome.pair)

C10_Witness ==
    /\ HelperCall
    /\ call.wrapped
    /\ call.kwargs.names = {"params", "ignore_errors"}
    /\ received.kwargs.names = {"params"}
    /\ ~inner.raised
    /\ outcome.pair
    /\ outcome.body = Val("dict", "id=1")

====
